---- MODULE Spec2Model ----
(***************************************************************************)
(* Model of the RAG demo service: the document stores                      *)
(* (app/services/document_store.py), the retrieve/answer pipeline          *)
(* (app/services/rag.py) and the HTTP handlers (app/api.py).               *)
(*                                                                         *)
(* Strings are sequences of one-character strings.  A request is served by *)
(* a worker thread; the steps of a handler that read or write the shared   *)
(* store (self._documents, self._next_id, the Qdrant collection) are       *)
(* separate actions, so that requests interleave between them.             *)
(***************************************************************************)
EXTENDS Integers, Sequences, FiniteSets, TLC

\* ------------------------------------------------------------------ bounds

\* worker threads serving requests at the same time
NThreads == 2
\* requests started in one run when they are served one after another
MaxRequests == 3
\* requests started in one run of the service that fell back to the in-memory
\* store, served one after another
MaxMemRequests == 4
\* requests started in one run when they are served at the same time
MaxParallelRequests == 3
\* requests started in one run of the service that fell back to the in-memory
\* store, served at the same time
MaxMemParallelRequests == 3
\* length of the one document text longer than the answer's truncation
LongTextLen == 102
\* candidate per-process string-hash salts (PYTHONHASHSEED)
MaxSalt == 1

\* ------------------------------------------------------- program constants

\* limit=2 in retrieve_node
RETRIEVE_LIMIT == 2
\* ctx[0][:100] in answer_node
ANSWER_TRUNC == 100
\* abs(hash(text)) % 10000 in FakeEmbeddingService.embed
SEED_MODULUS == 10000
\* EMBEDDING_DIM of app/config.py
EMBEDDING_DIM == 128

Threads == 1..NThreads

\* ----------------------------------------------------------------- strings

LongText == [i \in 1..LongTextLen |-> IF i <= ANSWER_TRUNC THEN "a" ELSE "c"]

\* texts posted to /add
DocTexts == { <<"A", "b">>, LongText }

\* questions posted to /ask
Questions == { <<>>, <<"a", "B">>, <<"d">> }

\* str.lower() on one character
LowerChar(c) ==
    CASE c = "A" -> "a"
      [] c = "B" -> "b"
      [] c = "C" -> "c"
      [] c = "D" -> "d"
      [] OTHER -> c

\* str.lower()
Lower(s) == [i \in 1..Len(s) |-> LowerChar(s[i])]

\* Python's `needle in hay` on strings
Contains(needle, hay) ==
    \E k \in 0..(Len(hay) - Len(needle)) :
        SubSeq(hay, k + 1, k + Len(needle)) = needle

\* Python's s[:n]
Take(s, n) == SubSeq(s, 1, IF Len(s) < n THEN Len(s) ELSE n)

AnswerPrefix ==
    <<"I", " ", "f", "o", "u", "n", "d", " ", "t", "h", "i", "s", ":", " ", "'">>

AnswerSuffix == <<".", ".", ".", "'">>

NoAnswer ==
    <<"S", "o", "r", "r", "y", ",", " ", "I", " ", "d", "o", "n", "'", "t",
      " ", "k", "n", "o", "w", ".">>

\* -------------------------------------------------------------- embeddings

CharCode(c) ==
    CASE c = "a" -> 97
      [] c = "b" -> 98
      [] c = "c" -> 99
      [] c = "d" -> 100
      [] c = "A" -> 65
      [] c = "B" -> 66
      [] OTHER -> 0

\* a stand-in for the unsalted part of the string hash: the length and the
\* first and last characters
TextCode(s) ==
    IF s = <<>> THEN 0
    ELSE (Len(s) * 961 + CharCode(s[1]) * 31 + CharCode(s[Len(s)])) % 65536

Abs(n) == IF n < 0 THEN -n ELSE n


\* ------------------------------------------------------------------- state

VARIABLES
    store,            \* which DocumentStore create_document_store returned
    qdrantAtStartup,  \* what the Qdrant backend does during initialization
    fallbackPrinted,  \* "Qdrant not available. ..." was printed
    clientApi,        \* the query method the installed QdrantClient exposes
    hashSalt,         \* the process's string-hash salt
    documents,        \* InMemoryDocumentStore._documents
    next_id,          \* QdrantDocumentStore._next_id
    collection,       \* the points of the Qdrant collection
    started,          \* requests started so far
    addCalls,         \* store.add_document calls started so far
    pc,               \* each worker thread's position
    frame,            \* each worker thread's local variables
    resp,             \* the last HTTP response each worker thread sent
    log               \* the responses sent, in order

vars ==
    <<store, qdrantAtStartup, fallbackPrinted, clientApi, hashSalt, documents, next_id,
      collection, started, addCalls, pc, frame, resp, log>>

\* hasattr(client, "query_points"), else hasattr(client, "search"), else neither
ClientApis == {"query_points", "search", "neither"}

\* QdrantClient(url) or recreate_collection raises, or both succeed
StartupOutcomes == {"raises", "ok"}

\* hash(text): "" hashes to 0, every other string depends on the salt
Hash(text) ==
    IF text = <<>> THEN 0
    ELSE IF hashSalt % 2 = 1 THEN -(TextCode(text) + hashSalt)
    ELSE TextCode(text) + hashSalt

\* FakeEmbeddingService.embed: a vector fixed by the seed
Embed(text) == [seed |-> Abs(Hash(text)) % SEED_MODULUS, dim |-> EMBEDDING_DIM]

NoEmbedding == [seed |-> -1, dim |-> 0]

\* the pipeline state dict before any key is set
EmptyState == [keys |-> {}, question |-> <<>>, context |-> <<>>, answer |-> <<>>]

IdleFrame ==
    [op |-> "none", text |-> <<>>, embedding |-> NoEmbedding, k |-> -1,
     doc_id |-> -1, tmp |-> -1, i |-> 0, n0 |-> 0, results |-> <<>>,
     hits |-> <<>>, state |-> EmptyState]

NoResponse ==
    [op |-> "none", ok |-> TRUE, status_code |-> 0, id |-> -1,
     question |-> <<>>, answer |-> <<>>, context_used |-> <<>>,
     qdrant_ready |-> FALSE, in_memory_docs_count |-> 0, graph_ready |-> FALSE]

Init ==
    /\ store = "none"
    /\ qdrantAtStartup \in StartupOutcomes
    /\ fallbackPrinted = FALSE
    /\ clientApi = "no_client"
    /\ hashSalt \in 0..MaxSalt
    /\ documents = <<>>
    /\ next_id = 0
    /\ collection = {}
    /\ started = 0
    /\ addCalls = 0
    /\ pc = [t \in Threads |-> "idle"]
    /\ frame = [t \in Threads |-> IdleFrame]
    /\ resp = [t \in Threads |-> NoResponse]
    /\ log = <<>>

\* ------------------------------------------------------------ store selector

\* faulty variant of create_document_store: no fallback, the Qdrant store is
\* returned whether or not its initialization raised
create_document_store_no_fallback ==
    /\ store = "none"
    /\ store' = "qdrant"
    /\ clientApi' \in ClientApis
    /\ fallbackPrinted' = FALSE
    /\ documents' = <<>>
    /\ next_id' = 0
    /\ collection' = {}
    /\ UNCHANGED <<qdrantAtStartup, hashSalt, started, addCalls,
                   pc, frame, resp, log>>

\* create_document_store: the try block raises unless both calls succeed
create_document_store ==
    /\ store = "none"
    /\ IF qdrantAtStartup = "ok"
       THEN /\ store' = "qdrant"
            /\ clientApi' \in ClientApis
            /\ fallbackPrinted' = FALSE
       ELSE /\ store' = "memory"
            /\ clientApi' = clientApi
            /\ fallbackPrinted' = TRUE
    /\ documents' = <<>>
    /\ next_id' = 0
    /\ collection' = {}
    /\ UNCHANGED <<qdrantAtStartup, hashSalt, started, addCalls,
                   pc, frame, resp, log>>

\* DocumentStore.uses_persistent_backend
uses_persistent_backend == store = "qdrant"

\* faulty variant of in_memory_count: the Qdrant store reports the number of
\* points it has written
in_memory_count_points ==
    IF store = "memory" THEN Len(documents) ELSE Cardinality(collection)

\* DocumentStore.in_memory_count
in_memory_count == IF store = "memory" THEN Len(documents) ELSE 0

\* RagService.is_ready
is_ready == TRUE


\* --------------------------------------------------------------- responses

\* the response is sent and the request's frame is dropped; the log notes
\* what the backend did for the request ("none": the backend was not called)
Respond(t, r, backend) ==
    /\ resp' = [resp EXCEPT ![t] = r]
    /\ log' = Append(log, [op |-> r.op, ok |-> r.ok, id |-> r.id,
                           backend |-> backend])
    /\ pc' = [pc EXCEPT ![t] = "idle"]
    /\ frame' = [frame EXCEPT ![t] = IdleFrame]

\* api.add_document returning {"id": doc_id, "status": "added"}
AddOk(doc_id) ==
    [NoResponse EXCEPT !.op = "add", !.ok = TRUE, !.status_code = 200,
                       !.id = doc_id]

\* api.add_document raising HTTPException(status_code=500)
AddFailed == [NoResponse EXCEPT !.op = "add", !.ok = FALSE, !.status_code = 500]

\* api.ask_question returning the result of RagService.answer_question
AskOk(question, st) ==
    [NoResponse EXCEPT !.op = "ask", !.ok = TRUE, !.status_code = 200,
                       !.question = question, !.answer = st.answer,
                       !.context_used =
                           IF "context" \in st.keys THEN st.context ELSE <<>>]

\* api.ask_question raising HTTPException(status_code=500)
AskFailed == [NoResponse EXCEPT !.op = "ask", !.ok = FALSE, !.status_code = 500]

\* ----------------------------------------------------------------- /status

\* api.status
status(t) ==
    /\ store # "none"
    /\ pc[t] = "idle"
    /\ started' = started + 1
    /\ Respond(t, [NoResponse EXCEPT !.op = "status", !.status_code = 200,
                       !.qdrant_ready = uses_persistent_backend,
                       !.in_memory_docs_count = in_memory_count,
                       !.graph_ready = is_ready], "none")
    /\ UNCHANGED <<store, qdrantAtStartup, fallbackPrinted, clientApi, hashSalt,
                   documents, next_id, collection, addCalls>>

\* -------------------------------------------------------------------- /add

\* api.add_document -> RagService.add_document: embed, enter store.add_document
add_document(t, text) ==
    /\ store # "none"
    /\ pc[t] = "idle"
    /\ started' = started + 1
    /\ addCalls' = addCalls + 1
    /\ frame' = [frame EXCEPT ![t] =
                    [IdleFrame EXCEPT !.op = "add", !.text = text,
                                      !.embedding = Embed(text), !.k = addCalls]]
    /\ pc' = [pc EXCEPT ![t] = IF store = "memory" THEN "mem_len" ELSE "q_read"]
    /\ UNCHANGED <<store, qdrantAtStartup, fallbackPrinted, clientApi, hashSalt,
                   documents, next_id, collection, resp, log>>

\* faulty variant of MemAddLen: identifiers counted from 1
MemAddLenOneBased(t) ==
    /\ pc[t] = "mem_len"
    /\ frame' = [frame EXCEPT ![t].doc_id = Len(documents) + 1]
    /\ pc' = [pc EXCEPT ![t] = "mem_append"]
    /\ UNCHANGED <<store, qdrantAtStartup, fallbackPrinted, clientApi, hashSalt,
                   documents, next_id, collection, started, addCalls, resp, log>>

\* InMemoryDocumentStore.add_document: doc_id = len(self._documents)
MemAddLen(t) ==
    /\ pc[t] = "mem_len"
    /\ frame' = [frame EXCEPT ![t].doc_id = Len(documents)]
    /\ pc' = [pc EXCEPT ![t] = "mem_append"]
    /\ UNCHANGED <<store, qdrantAtStartup, fallbackPrinted, clientApi, hashSalt,
                   documents, next_id, collection, started, addCalls, resp, log>>

\* faulty variant of MemAddAppend: the identifier is returned and the
\* Document is not appended
MemAddAppendNoStore(t) ==
    /\ pc[t] = "mem_append"
    /\ Respond(t, AddOk(frame[t].doc_id), "none")
    /\ UNCHANGED <<store, qdrantAtStartup, fallbackPrinted, clientApi, hashSalt,
                   documents, next_id, collection, started, addCalls>>

\* faulty variant of MemAddAppend: the Document is put in front of the stored
\* ones
MemAddAppendFront(t) ==
    /\ pc[t] = "mem_append"
    /\ documents' = <<[id |-> frame[t].doc_id, text |-> frame[t].text,
                       embedding |-> frame[t].embedding]>> \o documents
    /\ Respond(t, AddOk(frame[t].doc_id), "none")
    /\ UNCHANGED <<store, qdrantAtStartup, fallbackPrinted, clientApi, hashSalt,
                   next_id, collection, started, addCalls>>

\* InMemoryDocumentStore.add_document: append the Document, return doc_id
MemAddAppend(t) ==
    /\ pc[t] = "mem_append"
    /\ documents' = Append(documents,
                       [id |-> frame[t].doc_id, text |-> frame[t].text,
                        embedding |-> frame[t].embedding])
    /\ Respond(t, AddOk(frame[t].doc_id), "none")
    /\ UNCHANGED <<store, qdrantAtStartup, fallbackPrinted, clientApi, hashSalt,
                   next_id, collection, started, addCalls>>

\* QdrantDocumentStore.add_document: doc_id = self._next_id
QAddReadId(t) ==
    /\ pc[t] = "q_read"
    /\ frame' = [frame EXCEPT ![t].doc_id = next_id]
    /\ pc' = [pc EXCEPT ![t] = "q_load"]
    /\ UNCHANGED <<store, qdrantAtStartup, fallbackPrinted, clientApi, hashSalt,
                   documents, next_id, collection, started, addCalls, resp, log>>

\* self._next_id += 1: the load of self._next_id
QAddLoad(t) ==
    /\ pc[t] = "q_load"
    /\ frame' = [frame EXCEPT ![t].tmp = next_id]
    /\ pc' = [pc EXCEPT ![t] = "q_store"]
    /\ UNCHANGED <<store, qdrantAtStartup, fallbackPrinted, clientApi, hashSalt,
                   documents, next_id, collection, started, addCalls, resp, log>>

\* self._next_id += 1: the store of the incremented value
QAddStore(t) ==
    /\ pc[t] = "q_store"
    /\ next_id' = frame[t].tmp + 1
    /\ pc' = [pc EXCEPT ![t] = "q_upsert"]
    /\ UNCHANGED <<store, qdrantAtStartup, fallbackPrinted, clientApi, hashSalt,
                   documents, collection, started, addCalls, frame, resp, log>>

\* the payload add_document writes
TextPayload(text) == [kind |-> "dict", has_text |-> TRUE, text |-> text]

\* QdrantClient.upsert of one point: a point with the same id is replaced
Upsert(coll, point) == {p \in coll : p.id # point.id} \cup {point}

\* QdrantDocumentStore.add_document: the upsert returns, and doc_id is returned
QAddUpsertOk(t) ==
    /\ pc[t] = "q_upsert"
    /\ collection' = Upsert(collection,
                        [id |-> frame[t].doc_id, vector |-> frame[t].embedding,
                         payload |-> TextPayload(frame[t].text)])
    /\ Respond(t, AddOk(frame[t].doc_id), "ok")
    /\ UNCHANGED <<store, qdrantAtStartup, fallbackPrinted, clientApi, hashSalt,
                   documents, next_id, started, addCalls>>

\* faulty variant of QAddUpsertRaises: the exception is swallowed and the
\* identifier returned
QAddUpsertRaisesSwallowed(t) ==
    /\ pc[t] = "q_upsert"
    /\ Respond(t, AddOk(frame[t].doc_id), "raised")
    /\ UNCHANGED <<store, qdrantAtStartup, fallbackPrinted, clientApi, hashSalt,
                   documents, next_id, collection, started, addCalls>>

\* faulty variant of QAddUpsertRaises: the counter is taken back when the
\* upsert raises
QAddUpsertRaisesRollback(t) ==
    /\ pc[t] = "q_upsert"
    /\ next_id' = frame[t].doc_id
    /\ Respond(t, AddFailed, "raised")
    /\ UNCHANGED <<store, qdrantAtStartup, fallbackPrinted, clientApi, hashSalt,
                   documents, collection, started, addCalls>>

\* QdrantDocumentStore.add_document: the upsert raises, api answers 500
QAddUpsertRaises(t) ==
    /\ pc[t] = "q_upsert"
    /\ Respond(t, AddFailed, "raised")
    /\ UNCHANGED <<store, qdrantAtStartup, fallbackPrinted, clientApi, hashSalt,
                   documents, next_id, collection, started, addCalls>>


\* -------------------------------------------------------------------- /ask

\* api.ask_question -> RagService.answer_question: state = {"question": question}
answer_question(t, question) ==
    /\ store # "none"
    /\ pc[t] = "idle"
    /\ started' = started + 1
    /\ frame' = [frame EXCEPT ![t] =
                    [IdleFrame EXCEPT !.op = "ask", !.text = question,
                         !.state = [EmptyState EXCEPT !.keys = {"question"},
                                                      !.question = question]]]
    /\ pc' = [pc EXCEPT ![t] = "retrieve_node"]
    /\ UNCHANGED <<store, qdrantAtStartup, fallbackPrinted, clientApi, hashSalt,
                   documents, next_id, collection, addCalls, resp, log>>

\* faulty variant of MemRetrieveEnter: a worker that last answered the same
\* question reuses the context it returned then
MemRetrieveEnterCached(t) ==
    /\ pc[t] = "retrieve_node"
    /\ store = "memory"
    /\ IF resp[t].op = "ask" /\ resp[t].question = frame[t].state.question
       THEN /\ frame' = [frame EXCEPT
                   ![t].embedding = Embed(frame[t].state.question),
                   ![t].state.context = resp[t].context_used,
                   ![t].state.keys = @ \cup {"context"}]
            /\ pc' = [pc EXCEPT ![t] = "answer_node"]
       ELSE /\ frame' = [frame EXCEPT
                   ![t].embedding = Embed(frame[t].state.question),
                   ![t].results = <<>>,
                   ![t].i = 0,
                   ![t].n0 = Len(documents)]
            /\ pc' = [pc EXCEPT ![t] = "mem_scan"]
    /\ UNCHANGED <<store, qdrantAtStartup, fallbackPrinted, clientApi, hashSalt,
                   documents, next_id, collection, started, addCalls, resp, log>>

\* retrieve_node on the in-memory store: embed the question, enter retrieve
\* with results = [] and the loop's iterator at the first document; n0 keeps
\* the number of documents stored when retrieve is entered
MemRetrieveEnter(t) ==
    /\ pc[t] = "retrieve_node"
    /\ store = "memory"
    /\ frame' = [frame EXCEPT ![t].embedding = Embed(frame[t].state.question),
                              ![t].results = <<>>,
                              ![t].i = 0,
                              ![t].n0 = Len(documents)]
    /\ pc' = [pc EXCEPT ![t] = "mem_scan"]
    /\ UNCHANGED <<store, qdrantAtStartup, fallbackPrinted, clientApi, hashSalt,
                   documents, next_id, collection, started, addCalls, resp, log>>

\* faulty variant of Matches: the texts are compared as they are
MatchesCaseSensitive(raw_query, text) == Contains(raw_query, text)

\* InMemoryDocumentStore.retrieve: query_lower in doc.text.lower()
Matches(raw_query, text) == Contains(Lower(raw_query), Lower(text))

\* InMemoryDocumentStore.retrieve: one step of `for doc in self._documents`;
\* the list iterator compares its index with the list's current length
MemRetrieveScan(t) ==
    /\ pc[t] = "mem_scan"
    /\ IF frame[t].i < Len(documents)
       THEN /\ frame' = [frame EXCEPT
                   ![t].i = @ + 1,
                   ![t].results =
                       IF Matches(frame[t].state.question,
                                  documents[frame[t].i + 1].text)
                       THEN Append(@, documents[frame[t].i + 1].text)
                       ELSE @]
            /\ pc' = pc
       ELSE /\ frame' = frame
            /\ pc' = [pc EXCEPT ![t] = "mem_fallback"]
    /\ UNCHANGED <<store, qdrantAtStartup, fallbackPrinted, clientApi, hashSalt,
                   documents, next_id, collection, started, addCalls, resp, log>>

\* faulty variant of MemRetrieveFallback: the graph keeps one state for all
\* invocations in flight
MemRetrieveFallbackShared(t) ==
    /\ pc[t] = "mem_fallback"
    /\ LET results ==
               IF frame[t].results = <<>> /\ documents # <<>>
               THEN <<documents[1].text>>
               ELSE frame[t].results
       IN frame' = [u \in Threads |->
                       IF u = t
                       THEN [frame[t] EXCEPT !.results = results,
                                             !.state.context = results,
                                             !.state.keys = @ \cup {"context"}]
                       ELSE IF frame[u].op = "ask"
                       THEN [frame[u] EXCEPT !.state.context = results,
                                             !.state.keys = @ \cup {"context"}]
                       ELSE frame[u]]
    /\ pc' = [pc EXCEPT ![t] = "answer_node"]
    /\ UNCHANGED <<store, qdrantAtStartup, fallbackPrinted, clientApi, hashSalt,
                   documents, next_id, collection, started, addCalls, resp, log>>

\* InMemoryDocumentStore.retrieve: the fallback to the first document and the
\* return; retrieve_node stores the result as state["context"]
MemRetrieveFallback(t) ==
    /\ pc[t] = "mem_fallback"
    /\ LET results ==
               IF frame[t].results = <<>> /\ documents # <<>>
               THEN <<documents[1].text>>
               ELSE frame[t].results
       IN frame' = [frame EXCEPT ![t].results = results,
                                 ![t].state.context = results,
                                 ![t].state.keys = @ \cup {"context"}]
    /\ pc' = [pc EXCEPT ![t] = "answer_node"]
    /\ UNCHANGED <<store, qdrantAtStartup, fallbackPrinted, clientApi, hashSalt,
                   documents, next_id, collection, started, addCalls, resp, log>>

\* hits whose payload is None, is not a dict, or is a dict without "text"
MalformedHits ==
    { [payload |-> [kind |-> "none", has_text |-> FALSE, text |-> <<>>]],
      [payload |-> [kind |-> "list", has_text |-> FALSE, text |-> <<>>]],
      [payload |-> [kind |-> "dict", has_text |-> FALSE, text |-> <<>>]] }

\* the hits the backend may hold for a query
HitUniverse(coll) == {[payload |-> p.payload] : p \in coll} \cup MalformedHits

\* QdrantClient.query_points(...).points / QdrantClient.search(...): at most
\* `limit` hits, in the backend's order
ClientQuery(coll, query, limit) ==
    UNION {[1..m -> HitUniverse(coll)] : m \in 0..limit}

\* isinstance(payload, dict) and "text" in payload
Usable(hit) == hit.payload.kind = "dict" /\ hit.payload.has_text

\* faulty variant of ExtractTexts: every dict payload is taken, "text" or not
ExtractTextsAnyDict(hits) ==
    LET dicts == SelectSeq(hits, LAMBDA h : h.payload.kind = "dict")
    IN [i \in 1..Len(dicts) |-> dicts[i].payload.text]

\* QdrantDocumentStore.retrieve: the loop over the hits
RECURSIVE ExtractTexts(_)
ExtractTexts(hits) ==
    IF hits = <<>> THEN <<>>
    ELSE IF Usable(Head(hits))
         THEN <<Head(hits).payload.text>> \o ExtractTexts(Tail(hits))
         ELSE ExtractTexts(Tail(hits))

\* retrieve_node on the Qdrant store: the client has no query method, retrieve
\* raises RuntimeError, api answers 500
QRetrieveNoApi(t) ==
    /\ pc[t] = "retrieve_node"
    /\ store = "qdrant"
    /\ clientApi = "neither"
    /\ Respond(t, AskFailed, "no_api")
    /\ UNCHANGED <<store, qdrantAtStartup, fallbackPrinted, clientApi, hashSalt,
                   documents, next_id, collection, started, addCalls>>

\* retrieve_node on the Qdrant store: the query raises, api answers 500
QRetrieveRaises(t) ==
    /\ pc[t] = "retrieve_node"
    /\ store = "qdrant"
    /\ clientApi # "neither"
    /\ Respond(t, AskFailed, "raised")
    /\ UNCHANGED <<store, qdrantAtStartup, fallbackPrinted, clientApi, hashSalt,
                   documents, next_id, collection, started, addCalls>>

\* retrieve_node on the Qdrant store: the query returns hits
QRetrieveOk(t) ==
    /\ pc[t] = "retrieve_node"
    /\ store = "qdrant"
    /\ clientApi # "neither"
    /\ \E hits \in ClientQuery(collection, Embed(frame[t].state.question),
                               RETRIEVE_LIMIT) :
         frame' = [frame EXCEPT
                      ![t].embedding = Embed(frame[t].state.question),
                      ![t].hits = hits,
                      ![t].state.context = ExtractTexts(hits),
                      ![t].state.keys = @ \cup {"context"}]
    /\ pc' = [pc EXCEPT ![t] = "answer_node"]
    /\ UNCHANGED <<store, qdrantAtStartup, fallbackPrinted, clientApi, hashSalt,
                   documents, next_id, collection, started, addCalls, resp, log>>

\* faulty variant of Answer: the first entry is quoted whole
AnswerUntruncated(ctx) ==
    IF ctx # <<>>
    THEN AnswerPrefix \o ctx[1] \o AnswerSuffix
    ELSE NoAnswer

\* answer_node: the answer for a context
Answer(ctx) ==
    IF ctx # <<>>
    THEN AnswerPrefix \o Take(ctx[1], ANSWER_TRUNC) \o AnswerSuffix
    ELSE NoAnswer

\* faulty variant of answer_node: an empty context sends the invocation back
\* to retrieve_node
answer_node_retry(t) ==
    /\ pc[t] = "answer_node"
    /\ IF frame[t].state.context = <<>>
       THEN /\ pc' = [pc EXCEPT ![t] = "retrieve_node"]
            /\ frame' = [frame EXCEPT ![t].state.keys = {"question"}]
            /\ UNCHANGED <<resp, log>>
       ELSE LET st == [frame[t].state EXCEPT
                          !.answer = Answer(frame[t].state.context),
                          !.keys = @ \cup {"answer"}]
            IN Respond(t, AskOk(frame[t].text, st),
                       IF store = "qdrant" THEN "ok" ELSE "none")
    /\ UNCHANGED <<store, qdrantAtStartup, fallbackPrinted, clientApi, hashSalt,
                   documents, next_id, collection, started, addCalls>>

\* answer_node, then answer_question and api.ask_question return
answer_node(t) ==
    /\ pc[t] = "answer_node"
    /\ LET ctx == IF "context" \in frame[t].state.keys
                  THEN frame[t].state.context ELSE <<>>
           st == [frame[t].state EXCEPT !.answer = Answer(ctx),
                                        !.keys = @ \cup {"answer"}]
       IN Respond(t, AskOk(frame[t].text, st),
                  IF store = "qdrant" THEN "ok" ELSE "none")
    /\ UNCHANGED <<store, qdrantAtStartup, fallbackPrinted, clientApi, hashSalt,
                   documents, next_id, collection, started, addCalls>>

\* ---------------------------------------------------------- specifications

\* a step of a request served on the in-memory store
StepMem(t) ==
    \/ MemAddLen(t)
    \/ MemAddAppend(t)
    \/ MemRetrieveEnter(t)
    \/ MemRetrieveScan(t)
    \/ MemRetrieveFallback(t)
    \/ answer_node(t)

\* a step of a request served on the Qdrant store
StepQdrant(t) ==
    \/ QAddReadId(t)
    \/ QAddLoad(t)
    \/ QAddStore(t)
    \/ QAddUpsertOk(t)
    \/ QAddUpsertRaises(t)
    \/ QRetrieveNoApi(t)
    \/ QRetrieveRaises(t)
    \/ QRetrieveOk(t)

\* a step of a request that is being served
Step(t) == StepMem(t) \/ StepQdrant(t)

\* a request arrives at an idle worker thread
Arrive(t) ==
    \/ \E text \in DocTexts : add_document(t, text)
    \/ \E question \in Questions : answer_question(t, question)
    \/ status(t)

\* no request is being served
AllIdle == \A t \in Threads : pc[t] = "idle"

\* requests served at the same time by the worker threads
Next ==
    \/ create_document_store
    \/ \E t \in Threads : started < MaxParallelRequests /\ Arrive(t)
    \/ \E t \in Threads : Step(t)

Spec == Init /\ [][Next]_vars

\* the worker thread the next request is handed to
NextWorker == (started % NThreads) + 1

\* requests served one after another, handed to the worker threads in turn
NextSeq ==
    \/ create_document_store
    \/ started < MaxRequests /\ AllIdle /\ Arrive(NextWorker)
    \/ \E t \in Threads : Step(t)

SpecSeq == Init /\ [][NextSeq]_vars

\* the Qdrant backend is down when the service starts
InitMem == Init /\ qdrantAtStartup = "raises"

\* requests served one after another on the in-memory store the service fell
\* back to
NextMem ==
    \/ create_document_store
    \/ started < MaxMemRequests /\ AllIdle /\ Arrive(NextWorker)
    \/ \E t \in Threads : StepMem(t)

SpecMem == InitMem /\ [][NextMem]_vars

\* a POST /add or a POST /ask with a non-empty question arrives and is handed
\* to worker t
ArriveAddOrAsk(t) ==
    \/ \E text \in DocTexts : add_document(t, text)
    \/ \E question \in Questions \ {<<>>} : answer_question(t, question)

\* /add and /ask requests served at the same time by the worker threads on
\* the in-memory store the service fell back to, each handed to the first
\* idle worker
NextMemPar ==
    \/ create_document_store
    \/ \E t \in Threads :
           /\ started < MaxMemParallelRequests
           /\ \A u \in 1..(t - 1) : pc[u] # "idle"
           /\ ArriveAddOrAsk(t)
    \/ \E t \in Threads : StepMem(t)

\* the Qdrant backend is down at startup and string hashing is unsalted
\* (PYTHONHASHSEED=0): the in-memory store never reads an embedding
InitMemPar == InitMem /\ hashSalt = 0

SpecMemPar == InitMemPar /\ [][NextMemPar]_vars

\* ------------------------------------------------------------------ claims

\* the add_document responses, in the order they were sent
AddLog == SelectSeq(log, LAMBDA e : e.op = "add")

\* q occurs in text when case is ignored, character by character
OccursIn(q, text) ==
    \E start \in 1..(Len(text) + 1) :
        /\ start + Len(q) - 1 <= Len(text)
        /\ \A j \in 1..Len(q) : LowerChar(text[start + j - 1]) = LowerChar(q[j])

\* the entries of a sequence
Range(seq) == {seq[i] : i \in 1..Len(seq)}

\* part occurs in whole as a contiguous run
HasRun(part, whole) ==
    \E start \in 1..(Len(whole) + 1) :
        /\ start + Len(part) - 1 <= Len(whole)
        /\ \A j \in 1..Len(part) : whole[start + j - 1] = part[j]

\* C1: requests served one after another on a freshly created store of either
\* variant: the k-th add_document call (k = 0, 1, ...), when it returns,
\* returns identifier k; on the in-memory store every call returns, so the
\* identifiers returned are exactly 0, 1, ..., N-1 in call order.
C1_IdsInCallOrder ==
    /\ \A i \in 1..Len(AddLog) : AddLog[i].ok => AddLog[i].id = i - 1
    /\ store = "memory" => \A i \in 1..Len(AddLog) : AddLog[i].ok

C1_Witness ==
    /\ Len(AddLog) >= 3
    /\ \A i \in 1..Len(AddLog) : AddLog[i].ok /\ AddLog[i].id = i - 1

\* C2: no identifier is issued twice: any two add_document calls that return,
\* return different identifiers.
C2_NoIdIssuedTwice ==
    \A i, j \in 1..Len(AddLog) :
        (i < j /\ AddLog[i].ok /\ AddLog[j].ok) => AddLog[i].id # AddLog[j].id

\* the indexes of the stored documents whose text contains q, case ignored
Matching(q) == {k \in 1..Len(documents) : OccursIn(q, documents[k].text)}

\* ctx holds exactly the texts of the documents at the indexes in M, in
\* index order
IsSelection(ctx, M) ==
    /\ Len(ctx) = Cardinality(M)
    /\ \A k \in M : ctx[Cardinality({m \in M : m <= k})] = documents[k].text

\* C3: InMemoryDocumentStore.retrieve, requests served one after another: the
\* result holds exactly the documents whose text contains raw_query with case
\* ignored, in insertion order; if none matches and the store is not empty it
\* is [D0.text]; if the store is empty it is empty.  The embedding does not
\* occur in the result's description.
C3_MemRetrieveResult ==
    \A t \in Threads :
        (store = "memory" /\ pc[t] = "answer_node") =>
            LET q == frame[t].state.question
                ctx == frame[t].state.context
            IN /\ "context" \in frame[t].state.keys
               /\ Matching(q) # {} => IsSelection(ctx, Matching(q))
               /\ (Matching(q) = {} /\ documents # <<>>) =>
                      ctx = <<documents[1].text>>
               /\ documents = <<>> => ctx = <<>>

\* a query in mixed case that matches the second and third documents only
C3_Witness ==
    \E t \in Threads :
        /\ store = "memory"
        /\ pc[t] = "answer_node"
        /\ Len(documents) = 3
        /\ Matching(frame[t].state.question) = {2, 3}
        /\ frame[t].state.question = <<"a", "B">>
        /\ frame[t].state.context = <<documents[2].text, documents[3].text>>

\* C4: retrieve returns at most `limit` texts, so context_used never holds
\* more than 2 entries, whichever store is selected.
C4_ContextAtMostLimit ==
    \A t \in Threads :
        (resp[t].op = "ask" /\ resp[t].ok) =>
            Len(resp[t].context_used) <= RETRIEVE_LIMIT

\* C5: answer_question("") does not fail and returns an empty context with the
\* fixed "no answer" string, whatever the store holds.
C5_EmptyQuestionEmptyContext ==
    \A t \in Threads :
        (resp[t].op = "ask" /\ resp[t].question = <<>> /\ store = "memory") =>
            /\ resp[t].ok
            /\ resp[t].context_used = <<>>
            /\ resp[t].answer = NoAnswer

\* the answer is the template around the first ANSWER_TRUNC characters of
\* first, character by character
IsQuoteOf(answer, first) ==
    LET n == IF Len(first) < ANSWER_TRUNC THEN Len(first) ELSE ANSWER_TRUNC
        p == Len(AnswerPrefix)
    IN /\ Len(answer) = p + n + Len(AnswerSuffix)
       /\ \A i \in 1..p : answer[i] = AnswerPrefix[i]
       /\ \A i \in 1..n : answer[p + i] = first[i]
       /\ \A i \in 1..Len(AnswerSuffix) : answer[p + n + i] = AnswerSuffix[i]

\* C6: answer synthesis: with an empty context the answer is the fixed "no
\* answer" string; otherwise it is the template around the first 100
\* characters of context[0] and the ellipsis, so two answers with the same
\* context[0] are equal whatever the question and the later entries are.
C6_AnswerFromFirstContext ==
    /\ \A t \in Threads :
           (resp[t].op = "ask" /\ resp[t].ok) =>
               IF resp[t].context_used = <<>>
               THEN resp[t].answer = NoAnswer
               ELSE IsQuoteOf(resp[t].answer, resp[t].context_used[1])
    /\ \A t, u \in Threads :
           ( /\ resp[t].op = "ask" /\ resp[t].ok
             /\ resp[u].op = "ask" /\ resp[u].ok
             /\ resp[t].context_used # <<>>
             /\ resp[u].context_used # <<>>
             /\ resp[t].context_used[1] = resp[u].context_used[1] ) =>
               resp[t].answer = resp[u].answer

\* two answers from the same long first entry, for different questions and
\* with different later entries
C6_Witness ==
    \E t, u \in Threads :
        /\ resp[t].op = "ask" /\ resp[t].ok
        /\ resp[u].op = "ask" /\ resp[u].ok
        /\ resp[t].context_used # <<>>
        /\ resp[u].context_used # <<>>
        /\ resp[t].context_used[1] = LongText
        /\ resp[u].context_used[1] = LongText
        /\ resp[t].question # resp[u].question
        /\ Len(resp[t].context_used) = 1
        /\ Len(resp[u].context_used) = 2
        /\ resp[u].context_used[2] # LongText
        /\ Len(resp[t].answer) = Len(AnswerPrefix) + ANSWER_TRUNC + Len(AnswerSuffix)


\* C7: store selection: the store is the Qdrant variant exactly when its
\* initialization raised nothing, the in-memory variant (with the fallback
\* message printed) otherwise; /status reports it with the pipeline ready; and
\* whatever requests were served since, failing ones included, the selected
\* variant is the one selected at startup.
C7_StoreSelectedOnce ==
    /\ (started > 0 \/ log # <<>>) => store \in {"memory", "qdrant"}
    /\ store # "none" =>
           /\ store = "qdrant" <=> qdrantAtStartup = "ok"
           /\ store = "memory" <=> qdrantAtStartup = "raises"
           /\ fallbackPrinted <=> store = "memory"
    /\ \A t \in Threads :
           resp[t].op = "status" =>
               /\ resp[t].status_code = 200
               /\ resp[t].qdrant_ready = (qdrantAtStartup = "ok")
               /\ resp[t].graph_ready = TRUE

\* the backend was down at startup and /status is asked after other requests
C7_Witness ==
    \E t \in Threads :
        /\ qdrantAtStartup = "raises"
        /\ store = "memory"
        /\ Len(log) >= 3
        /\ log[Len(log)].op = "status"
        /\ resp[t].op = "status"
        /\ resp[t].qdrant_ready = FALSE
        /\ resp[t].graph_ready = TRUE

\* the add_document responses that carried an identifier
OkAdds == SelectSeq(log, LAMBDA e : e.op = "add" /\ e.ok)

\* C8: on the Qdrant store a request fails exactly when the backend call made
\* for it raised, whatever happened to the requests before it; a failed
\* response is a 500 with no identifier, answer or context; every identifier
\* that was returned belongs to a point that was written, and no point was
\* written for a request that failed.
C8_BackendFailureSurfaced ==
    /\ \A i \in 1..Len(log) :
           /\ log[i].ok <=> log[i].backend \in {"ok", "none"}
           /\ ~log[i].ok => log[i].id = -1
    /\ \A t \in Threads :
           ~resp[t].ok =>
               /\ resp[t].status_code = 500
               /\ resp[t].id = -1
               /\ resp[t].answer = <<>>
               /\ resp[t].context_used = <<>>
    /\ store = "qdrant" =>
           /\ \A i \in 1..Len(OkAdds) : \E p \in collection : p.id = OkAdds[i].id
           /\ Cardinality(collection) <= Len(OkAdds)

\* a write was rejected, and a later write and a later query went through
C8_Witness ==
    /\ store = "qdrant"
    /\ Len(log) = 3
    /\ log[1].op = "add" /\ log[1].backend = "raised" /\ ~log[1].ok
    /\ log[2].op = "add" /\ log[2].backend = "ok" /\ log[2].ok /\ log[2].id = 1
    /\ log[3].op = "ask" /\ log[3].backend = "ok" /\ log[3].ok

\* the indexes of the hits that carry a text
WithText(hits) == {k \in 1..Len(hits) : hits[k] \notin MalformedHits}

\* C9: QdrantDocumentStore.retrieve returns at most `limit` texts: the texts
\* of the hits whose payload is a mapping with a "text" key, in the order of
\* the hits, and nothing for the other hits; with a client that has neither
\* query_points nor search no retrieve returns and every /ask fails.
C9_QdrantRetrieveResult ==
    /\ \A t \in Threads :
           (store = "qdrant" /\ pc[t] = "answer_node") =>
               LET hits == frame[t].hits
                   ctx == frame[t].state.context
                   U == WithText(hits)
               IN /\ clientApi \in {"query_points", "search"}
                  /\ Len(ctx) <= RETRIEVE_LIMIT
                  /\ Len(ctx) = Cardinality(U)
                  /\ \A k \in U :
                         ctx[Cardinality({m \in U : m <= k})] = hits[k].payload.text
    /\ (store = "qdrant" /\ clientApi = "neither") =>
           \A i \in 1..Len(log) :
               log[i].op = "ask" => (~log[i].ok /\ log[i].backend = "no_api")

\* a hit without payload comes before a hit with a text
C9_Witness ==
    \E t \in Threads :
        /\ store = "qdrant"
        /\ pc[t] = "answer_node"
        /\ Len(frame[t].hits) = RETRIEVE_LIMIT
        /\ frame[t].hits[1].payload.kind = "none"
        /\ frame[t].hits[2].payload.text = LongText
        /\ frame[t].state.context = <<LongText>>

\* Python's text[:100], index by index
First100(text) ==
    [i \in 1..(IF Len(text) < ANSWER_TRUNC THEN Len(text) ELSE ANSWER_TRUNC)
        |-> text[i]]

\* C10: the in-memory store, requests served one after another: an
\* answer_question made after add_document(t) returned has every stored text
\* that contains the question (case ignored) in its context; after
\* add_document(t) on a fresh store returned 0, answer_question(q) with q in
\* t returns context_used = [t] and an answer holding the first 100
\* characters of t; with no document added answer_question returns an empty
\* context and the "no answer" string.
C10_ReadYourWrites ==
    store = "memory" =>
        /\ \A t \in Threads :
               pc[t] = "answer_node" =>
                   \A k \in 1..Len(documents) :
                       OccursIn(frame[t].state.question, documents[k].text) =>
                           documents[k].text \in Range(frame[t].state.context)
        /\ (Len(log) = 2 /\ log[1].op = "add" /\ log[2].op = "ask") =>
               /\ log[1].ok /\ log[1].id = 0
               /\ Len(documents) = 1
               /\ \A u \in Threads :
                      (resp[u].op = "ask"
                          /\ OccursIn(resp[u].question, documents[1].text)) =>
                          /\ resp[u].ok
                          /\ resp[u].context_used = <<documents[1].text>>
                          /\ HasRun(First100(documents[1].text), resp[u].answer)
        /\ AddLog = <<>> =>
               \A u \in Threads :
                   resp[u].op = "ask" =>
                       /\ resp[u].ok
                       /\ resp[u].context_used = <<>>
                       /\ resp[u].answer = NoAnswer

\* add_document("Ab") returned 0 and answer_question("aB") found it
C10_Witness ==
    \E u \in Threads :
        /\ store = "memory"
        /\ Len(log) = 2 /\ log[1].op = "add" /\ log[1].id = 0 /\ log[2].op = "ask"
        /\ resp[u].op = "ask"
        /\ resp[u].question = <<"a", "B">>
        /\ resp[u].context_used = <<<<"A", "b">>>>
        /\ HasRun(<<"A", "b">>, resp[u].answer)


\* what InMemoryDocumentStore.retrieve returns for raw_query q when it runs
\* alone on the documents docs
RetrieveAlone(docs, q) ==
    LET hit == SelectSeq(docs, LAMBDA d : OccursIn(q, d.text))
    IN IF hit # <<>> THEN [i \in 1..Len(hit) |-> hit[i].text]
       ELSE IF docs # <<>> THEN <<docs[1].text>>
       ELSE <<>>

\* the place in the log of the response worker t holds, when requests are
\* handed to the workers in turn and none is being served
LogPos(t) ==
    LET mine == {i \in 1..Len(log) : ((i - 1) % NThreads) + 1 = t}
    IN IF mine = {} THEN 0 ELSE CHOOSE i \in mine : \A j \in mine : j <= i

\* a request is being served as a /ask, or arrives as one
AskStep ==
    \E t \in Threads :
        /\ <<pc[t], frame[t]>> # <<pc'[t], frame'[t]>>
        /\ frame[t].op = "ask" \/ frame'[t].op = "ask"

\* the same question was answered twice with no add_document in between
SameQuestionNoAddBetween(t, u) ==
    /\ resp[t].op = "ask" /\ resp[t].ok
    /\ resp[u].op = "ask" /\ resp[u].ok
    /\ resp[t].question = resp[u].question
    /\ LogPos(t) < LogPos(u)
    /\ \A i \in LogPos(t)..LogPos(u) : log[i].op # "add"

\* C11: requests served one after another: a step of answer_question, one
\* that ends in a failure included, leaves the selected store, the document
\* sequence (so in_memory_count), the identifier counter and the collection
\* as they were; on the in-memory store the context is what retrieve gives on
\* the documents stored at that moment, not a remembered one, and two answers
\* to the same question with no add_document in between are equal.
C11_AnswerQuestionPure ==
    /\ [][AskStep =>
             /\ UNCHANGED <<store, documents, next_id, collection, addCalls>>
             /\ in_memory_count' = in_memory_count]_vars
    /\ [](\A t \in Threads :
             (store = "memory" /\ pc[t] = "answer_node") =>
                 frame[t].state.context =
                     RetrieveAlone(documents, frame[t].state.question))
    /\ []((store = "memory" /\ AllIdle) =>
             \A t, u \in Threads :
                 SameQuestionNoAddBetween(t, u) =>
                     /\ resp[t].answer = resp[u].answer
                     /\ resp[t].context_used = resp[u].context_used)

\* add_document, then the same question twice: both answers quote the document
C11_Witness ==
    \E t, u \in Threads :
        /\ store = "memory"
        /\ AllIdle
        /\ Len(log) = 3 /\ log[1].op = "add"
        /\ SameQuestionNoAddBetween(t, u)
        /\ resp[t].question = <<"a", "B">>
        /\ resp[u].context_used = <<<<"A", "b">>>>


\* the stage of the graph a worker's invocation is in: START before
\* retrieve_node has run, then the retrieve and the answer node; 4 is END
Stage(p) ==
    CASE p = "retrieve_node" -> 1
      [] p \in {"mem_scan", "mem_fallback"} -> 2
      [] p = "answer_node" -> 3
      [] OTHER -> 4

\* the most steps worker t's invocation of the graph can still take: the
\* documents left to scan, then the fallback, the answer node and the return
StepsLeft(t) ==
    CASE pc[t] = "retrieve_node" -> Len(documents) + 4
      [] pc[t] = "mem_scan" -> (Len(documents) - frame[t].i) + 3
      [] pc[t] = "mem_fallback" -> 2
      [] pc[t] = "answer_node" -> 1
      [] OTHER -> 0

\* worker t takes a step of an invocation of the graph
GraphStep(t) == frame[t].op = "ask" /\ <<pc[t], frame[t]>> # <<pc'[t], frame'[t]>>

\* C12: an invocation of the graph never goes back a stage and never leaves
\* out the retrieve stage; "context" is not in the state before the retrieve
\* stage ends and is in it when the answer stage starts; the answer stage is
\* the last one and its single step returns the question as given, the answer
\* made from the context, and the context; the question never changes on the
\* way; and an invocation in service always has a step to take and each of
\* its steps leaves it fewer steps to take, so that it ends (with these three
\* fields unless a call to the store raised).
C12_GraphRunsInOrder ==
    /\ [][\A t \in Threads : GraphStep(t) =>
             /\ Stage(pc[t]) <= Stage(pc'[t])
             /\ Stage(pc[t]) = 3 => Stage(pc'[t]) = 4
             /\ Stage(pc'[t]) = 3 =>
                    /\ Stage(pc[t]) \in {1, 2}
                    /\ frame'[t].state.keys = {"question", "context"}
             /\ Stage(pc'[t]) \in {1, 2} =>
                    /\ frame'[t].state.keys = {"question"}
                    /\ frame'[t].state.question = frame[t].state.question
             /\ Stage(pc'[t]) = 4 =>
                    \/ /\ Stage(pc[t]) = 3
                       /\ resp'[t].op = "ask" /\ resp'[t].ok
                       /\ resp'[t].question = frame[t].state.question
                       /\ resp'[t].context_used = frame[t].state.context
                       /\ resp'[t].answer = Answer(frame[t].state.context)
                    \/ /\ Stage(pc[t]) = 1
                       /\ store = "qdrant"
                       /\ resp'[t] = AskFailed]_vars
    /\ [][\A t \in Threads : GraphStep(t) =>
             /\ StepsLeft(t)' < StepsLeft(t)
             /\ StepsLeft(t)' >= 0]_vars
    /\ [](\A t \in Threads : frame[t].op = "ask" => ENABLED Step(t))

\* an invocation has gone through both nodes and returned a context
C12_Witness ==
    \E t \in Threads :
        /\ pc[t] = "idle"
        /\ resp[t].op = "ask" /\ resp[t].ok
        /\ resp[t].question = <<"d">>
        /\ resp[t].context_used = <<LongText>>
        /\ resp[t].answer # NoAnswer


\* the documents whose text is in a worker's context were found with the
\* question q, or the context is the fallback to the first document
FromQuestion(ctx, q) ==
    \/ \A i \in 1..Len(ctx) : OccursIn(q, ctx[i])
    \/ documents # <<>> /\ ctx = <<documents[1].text>>

\* C13: requests served at the same time: whatever the other workers do, the
\* state a worker's answer_node reads holds the question this worker was
\* called with and, as context, the result of this worker's own retrieve,
\* found with that question; and the response it sends carries that question,
\* that context and the answer made from it.
C13_StatePerInvocation ==
    /\ [](\A t \in Threads : pc[t] = "answer_node" =>
             /\ frame[t].state.question = frame[t].text
             /\ frame[t].state.keys = {"question", "context"}
             /\ frame[t].state.context = frame[t].results
             /\ FromQuestion(frame[t].state.context, frame[t].text))
    /\ [](\A t \in Threads : frame[t].op = "ask" /\ pc[t] # "answer_node" =>
             /\ frame[t].state.question = frame[t].text
             /\ frame[t].state.keys = {"question"})
    /\ [][\A t \in Threads : pc[t] = "answer_node" /\ pc'[t] = "idle" =>
             /\ resp'[t].question = frame[t].text
             /\ resp'[t].context_used = frame[t].results
             /\ resp'[t].answer = Answer(frame[t].results)]_vars

\* two invocations in flight with different questions and different retrieve
\* results, both about to answer
C13_Witness ==
    \E t, u \in Threads :
        /\ pc[t] = "answer_node" /\ pc[u] = "answer_node"
        /\ frame[t].text = <<"a", "B">> /\ frame[u].text = <<"d">>
        /\ frame[t].results = <<<<"A", "b">>>>
        /\ frame[u].results = <<>>


\* worker t's in-memory retrieve returns
MemRetrieveReturns(t) == pc[t] = "mem_fallback" /\ pc'[t] = "answer_node"

\* C14: requests served at the same time on the in-memory store: the result
\* a retrieve returns is the one a retrieve running alone gives on the first
\* p stored documents, for some p between the number stored when it started
\* and the number stored when it returns; a result of two or more texts holds
\* matches only; and the result is not empty when a document was stored
\* before the retrieve started.
C14_RetrieveSnapshotConsistent ==
    [][\A t \in Threads : MemRetrieveReturns(t) =>
          /\ \E p \in frame[t].n0..Len(documents) :
                 frame'[t].results =
                     RetrieveAlone(SubSeq(documents, 1, p), frame[t].text)
          /\ \/ \A i \in 1..Len(frame'[t].results) :
                    OccursIn(frame[t].text, frame'[t].results[i])
             \/ frame'[t].results = <<documents[1].text>>
             \/ frame'[t].results = <<>>
          /\ frame[t].n0 >= 1 => frame'[t].results # <<>>]_vars

\* a retrieve that started on an empty store has returned the text of a
\* document added while it ran
C14_Witness ==
    \E t \in Threads :
        /\ pc[t] = "answer_node"
        /\ frame[t].n0 = 0
        /\ frame[t].results # <<>>


\* the add_document calls whose backend write failed
FailedAdds == SelectSeq(log, LAMBDA e : e.op = "add" /\ ~e.ok)

\* the identifiers returned by add_document calls so far
IssuedIds == {OkAdds[i].id : i \in 1..Len(OkAdds)}

\* C15: add_document calls served one after another on the Qdrant store,
\* any of their upserts raising: _next_id is the number of calls started,
\* from the moment a call has stored the incremented counter (one less while
\* the call is between its start and that store); the identifier a call holds
\* when it reaches the upsert is below the counter already; the identifiers
\* returned are strictly increasing in call order and below the counter; and
\* of the identifiers below the counter, as many were never returned as
\* there were failed calls.
C15_QdrantIdsNeverReused ==
    store = "qdrant" =>
        /\ AllIdle => next_id = addCalls
        /\ \A t \in Threads :
               /\ pc[t] \in {"q_read", "q_load", "q_store"} =>
                      next_id = addCalls - 1
               /\ pc[t] \in {"q_load", "q_store"} => frame[t].doc_id = next_id
               /\ pc[t] = "q_upsert" =>
                      /\ next_id = addCalls
                      /\ frame[t].doc_id = next_id - 1
                      /\ frame[t].doc_id \notin IssuedIds
        /\ \A i, j \in 1..Len(OkAdds) : i < j => OkAdds[i].id < OkAdds[j].id
        /\ IssuedIds \subseteq 0..(next_id - 1)
        /\ AllIdle =>
               Cardinality((0..(next_id - 1)) \ IssuedIds) = Len(FailedAdds)

\* the first write failed and consumed 0; the next two calls returned 1 and 2
C15_Witness ==
    /\ store = "qdrant"
    /\ AllIdle
    /\ Len(FailedAdds) = 1
    /\ ~AddLog[1].ok
    /\ IssuedIds = {1, 2}
    /\ next_id = 3


\* the add_document calls that had returned when the n-th response was sent
ReturnedAdds(n) ==
    Len(SelectSeq(SubSeq(log, 1, n), LAMBDA e : e.op = "add" /\ e.ok))

\* C16: requests served one after another: on the in-memory store
\* uses_persistent_backend is false and in_memory_count is the number of
\* add_document calls that have returned, in every state, so also while and
\* after a question is answered; on the Qdrant store uses_persistent_backend
\* is true and in_memory_count is 0 whatever was added; and a /status
\* response reports these two values as they were when it was sent.
C16_StatusTracksStore ==
    /\ store = "memory" =>
           /\ ~uses_persistent_backend
           /\ in_memory_count = Len(OkAdds)
    /\ store = "qdrant" =>
           /\ uses_persistent_backend
           /\ in_memory_count = 0
    /\ AllIdle =>
           \A t \in Threads :
               resp[t].op = "status" =>
                   /\ resp[t].qdrant_ready = (store = "qdrant")
                   /\ resp[t].in_memory_docs_count =
                          IF store = "memory" THEN ReturnedAdds(LogPos(t)) ELSE 0

\* two documents were written to the Qdrant collection and /status reports a
\* persistent backend with a count of 0
C16_Witness ==
    \E t \in Threads :
        /\ store = "qdrant"
        /\ AllIdle
        /\ Cardinality(collection) = 2
        /\ log[Len(log)].op = "status"
        /\ LogPos(t) = Len(log)
        /\ resp[t].qdrant_ready
        /\ resp[t].in_memory_docs_count = 0

====
